---- MODULE Spec2Model ----
(***************************************************************************)
(* A model of the LLM-response normalizer and the batch loops of the       *)
(* misinformation analysis tool.                                            *)
(*                                                                          *)
(*   pages/processes/analysis.py   _extract_json_block, analyze, ...        *)
(*   core/classifier.py            extract_json_block, classify_transcript  *)
(*   core/postprocess.py           normalize_label, ensure_schema           *)
(*   pages/2_Analysis.py, app.py, scripts/run_mistral_batch.py  batch loops *)
(*   streamlit_ui/pages/2_Analysis.py      the batch loop of the older page *)
(*                                                                          *)
(* Python strings that the code inspects character by character (labels,   *)
(* keywords, numbers given as strings) are sequences of one-character       *)
(* strings.  The text an LLM returns is a sequence of lexical tokens: an    *)
(* opening brace, a closing brace, a run of prose without braces, or one    *)
(* member  "key": value  of a JSON object (with its separating comma).      *)
(* Numbers are integers counting thousandths (875 is 0.875).                *)
(***************************************************************************)
EXTENDS Integers, Sequences, FiniteSets, TLC

VARIABLES
    input,      \* the argument of the normalizer call under study
    fn,         \* which normalizer was called: "none", "pages", "core"
    outcome,    \* what the call did: [exc, val]
    lbl,        \* the raw label handed to normalize_label
    once,       \* normalize_label(lbl)
    twice,      \* normalize_label(normalize_label(lbl))
    lpc,        \* "raw", "once", "twice"
    kwlist,     \* the keywords k1..kn a reply carries
    kwform,     \* how the reply writes them: "string" or "sequence"
    kwfn,       \* which code normalized them: "none", "pages", "schema"
    kwout,      \* the keywords after normalization
    pipeline,   \* the batch loop that runs: "pages", "cli", "app", "legacy"
    provider,   \* the LLM provider selected for the batch
    check,      \* the credential check of this run: "absent", "failed", "passed"
    video_paths, \* the names of the input files, in the order of processing
    files,      \* the input files in order, each given by its content
    idx,        \* the position of the file being processed
    pc,         \* "idle", "blocked", "transcribe", "classify", "append", "done", "aborted"
    transcript, \* the transcript of the current file
    result,     \* the classification result of the current file
    rows,       \* the records appended so far
    error,      \* the exception that left the loop: [stage, exc]
    service_provider, \* pages/2_Analysis.py: the provider the select box holds
    check_done,       \* st.session_state["check_done"]
    openai_api_key,   \* st.session_state["openai_api_key"]
    azure,            \* the four azure_* entries of st.session_state
    video_files,      \* what the file uploader holds
    session_keys,     \* which of "uploaded_files", "data", "page_state" are in the session
    shown,            \* the credential inputs the last run showed: "none", "OpenAI", "Azure OpenAI"
    client,           \* the client object of the last run: "none", "OpenAI", "Azure OpenAI"
    selected_model,   \* whether the last run has a selected model
    event,            \* what started the last run of the page
    processed,        \* the files the last run transcribed and analyzed
    script,           \* the batch CLI that runs: "mistral" or "multimodal"
    prompt_kinds,     \* the values of `prompt` in the configs of two runs
    prompts,          \* the system prompts built so far, one per run
    entry,            \* the transcription entry point called: "pages" or "core"
    whisper_provider, \* what _get_provider() returns
    num_parts,        \* 0 below the size threshold, else ceil(size_mb / threshold_mb)
    has_moviepy,      \* _HAS_MOVIEPY
    tmp_files,        \* the files the call created that exist
    part_paths,       \* the paths the call transcribes (parts)
    part_idx,         \* how many parts are written (split) or transcribed (transcribe)
    tstep,            \* position in the call
    texit,            \* how the call ends: "none", "returned", "raised"
    csv_header,       \* the header line of the CSV file of the batch CLI, empty before it is written
    app_page,         \* app.py: the page the sidebar menu holds, "off" before the first run
    app_provider,     \* the provider the select box of app.py holds
    api_valid,        \* st.session_state.api_valid
    key_input,        \* st.session_state._key_input, the text input of the key
    uploaded,         \* what the file uploader of app.py holds
    session_files,    \* st.session_state.files
    button_shown,     \* whether the last run reached the 'Transcribe & Analyze' button
    batch             \* the batch the last run started: [provider, key, files]

normVars == <<input, fn, outcome>>
labelVars == <<lbl, once, twice, lpc>>
kwVars == <<kwlist, kwform, kwfn, kwout>>
batchVars == <<pipeline, provider, check, video_paths, files, idx, pc, transcript, result, rows, error>>
sessVars == <<service_provider, check_done, openai_api_key, azure, video_files, session_keys,
              shown, client, selected_model, event, processed>>
promptVars == <<script, prompt_kinds, prompts>>
tempVars == <<entry, whisper_provider, num_parts, has_moviepy, tmp_files, part_paths, part_idx, tstep, texit>>
csvVars == <<csv_header>>
appVars == <<app_page, app_provider, api_valid, key_input, uploaded, session_files, button_shown, batch>>
otherVars == <<sessVars, promptVars, tempVars, csvVars, appVars>>
coreVars == <<normVars, labelVars, kwVars, batchVars>>
vars == <<input, fn, outcome, lbl, once, twice, lpc, kwlist, kwform, kwfn, kwout,
          pipeline, provider, check, video_paths, files, idx, pc, transcript, result, rows, error,
          service_provider, check_done, openai_api_key, azure, video_files, session_keys,
          shown, client, selected_model, event, processed,
          script, prompt_kinds, prompts,
          entry, whisper_provider, num_parts, has_moviepy, tmp_files, part_paths, part_idx, tstep, texit,
          csv_header,
          app_page, app_provider, api_valid, key_input, uploaded, session_files, button_shown, batch>>

\* ------------------------------------------------------------------ bounds

MaxLen == 6          \* tokens in a structural text
MaxMembers == 2      \* members of the object in a field text
MaxLabelLen == 4     \* characters of a raw label
MaxFiles == 2        \* files of a batch
MaxKeywords == 3     \* keywords of a keywords field
MaxPaths == 3        \* file names the input directory of the batch CLI may hold
MaxUploads == 2      \* files of the user that the uploader of a page may hold
MaxParts == 3        \* parts a large upload is split into

\* config/settings.py
MAX_UPLOAD_MB == 200

\* ------------------------------------------------------- Python str methods

Lower == <<"a","b","c","d","e","f","g","h","i","j","k","l","m",
           "n","o","p","q","r","s","t","u","v","w","x","y","z">>
Capital == <<"A","B","C","D","E","F","G","H","I","J","K","L","M",
             "N","O","P","Q","R","S","T","U","V","W","X","Y","Z">>

UpperChar(c) ==
    IF \E i \in 1..26 : Lower[i] = c
    THEN Capital[CHOOSE i \in 1..26 : Lower[i] = c]
    ELSE c

\* str.upper()
Upper(s) == [i \in 1..Len(s) |-> UpperChar(s[i])]

Whitespace == {" ", "\n", "\t"}

RECURSIVE LStripChars(_, _)
LStripChars(s, cs) ==
    IF Len(s) > 0 /\ s[1] \in cs THEN LStripChars(Tail(s), cs) ELSE s

RECURSIVE RStripChars(_, _)
\* str.rstrip(chars)
RStripChars(s, cs) ==
    IF Len(s) > 0 /\ s[Len(s)] \in cs
    THEN RStripChars(SubSeq(s, 1, Len(s) - 1), cs)
    ELSE s

\* str.strip()
Strip(s) == RStripChars(LStripChars(s, Whitespace), Whitespace)

RECURSIVE SplitFrom(_, _, _, _)
SplitFrom(s, sep, cur, acc) ==
    IF Len(s) = 0 THEN Append(acc, cur)
    ELSE IF s[1] = sep THEN SplitFrom(Tail(s), sep, <<>>, Append(acc, cur))
    ELSE SplitFrom(Tail(s), sep, Append(cur, s[1]), acc)

\* a split that never cuts
NoSplit(s, sep) == <<s>>

\* str.split(sep) for a one-character separator: empty pieces are kept
Split(s, sep) == SplitFrom(s, sep, <<>>, <<>>)

\* the stripped piece h is kept unless it is empty
KeepNonEmpty(h, rest) == IF Len(h) > 0 THEN <<h>> \o rest ELSE rest

RECURSIVE SelectNonEmptyStripped(_)
\* [x.strip() for x in parts if x.strip()]
SelectNonEmptyStripped(parts) ==
    IF Len(parts) = 0 THEN <<>>
    ELSE KeepNonEmpty(Strip(Head(parts)), SelectNonEmptyStripped(Tail(parts)))

\* ------------------------------------------------------------ JSON values

StrV(s) == [t |-> "str", v |-> s]
NumV(m) == [t |-> "num", v |-> m]
NullV == [t |-> "null", v |-> 0]
ListV(xs) == [t |-> "list", v |-> xs]

DigitChars == <<"0","1","2","3","4","5","6","7","8","9">>
IsDigit(c) == \E d \in 1..10 : DigitChars[d] = c
DigitVal(c) == (CHOOSE d \in 1..10 : DigitChars[d] = c) - 1

RECURSIVE Digits(_)
Digits(n) ==
    IF n < 10 THEN <<DigitChars[n + 1]>>
    ELSE Digits(n \div 10) \o <<DigitChars[(n % 10) + 1]>>

\* str(number): an integer-valued number is an int literal, any other a float
\* with up to three decimals
ThreeDigits(frac) ==
    <<DigitChars[(frac \div 100) + 1], DigitChars[((frac \div 10) % 10) + 1],
      DigitChars[(frac % 10) + 1]>>

FormatAbs(a) ==
    IF a % 1000 = 0 THEN Digits(a \div 1000)
    ELSE Digits(a \div 1000) \o <<".">> \o RStripChars(ThreeDigits(a % 1000), {"0"})

FormatNum(m) == IF m < 0 THEN <<"-">> \o FormatAbs(-m) ELSE FormatAbs(m)

RECURSIVE Join(_, _)
Join(parts, sep) ==
    IF Len(parts) = 0 THEN <<>>
    ELSE IF Len(parts) = 1 THEN parts[1]
    ELSE parts[1] \o sep \o Join(Tail(parts), sep)

RECURSIVE Repr(_)
\* repr(value), as str(list) shows the list's elements
Repr(x) ==
    IF x.t = "str" THEN <<"'">> \o x.v \o <<"'">>
    ELSE IF x.t = "num" THEN FormatNum(x.v)
    ELSE IF x.t = "null" THEN <<"N","o","n","e">>
    ELSE <<"[">> \o Join([i \in 1..Len(x.v) |-> Repr(x.v[i])], <<",", " ">>) \o <<"]">>

\* str(value)
Str(x) == IF x.t = "str" THEN x.v ELSE Repr(x)

RECURSIVE DigitsValue(_)
DigitsValue(ds) ==
    IF Len(ds) = 0 THEN 0
    ELSE 10 * DigitsValue(SubSeq(ds, 1, Len(ds) - 1)) + DigitVal(ds[Len(ds)])

\* float(str): surrounding whitespace, an optional sign, digits with an optional
\* decimal point.  The strings of this model carry at most three decimals and no
\* exponent, inf or nan.
\* the digits ip before and fp after the decimal point
ParseParts(neg, ip, fp) ==
    IF /\ Len(ip) + Len(fp) > 0
       /\ Len(fp) <= 3
       /\ \A i \in 1..Len(ip) : IsDigit(ip[i])
       /\ \A i \in 1..Len(fp) : IsDigit(fp[i])
    THEN [ok |-> TRUE,
          v |-> (IF neg THEN -1 ELSE 1) *
                (1000 * DigitsValue(ip)
                 + DigitsValue(fp \o SubSeq(<<"0","0","0">>, 1, 3 - Len(fp))))]
    ELSE [ok |-> FALSE, v |-> 0]

ParseAtDot(neg, body, dot) ==
    ParseParts(neg, SubSeq(body, 1, dot - 1), SubSeq(body, dot + 1, Len(body)))

ParseUnsigned(neg, body, dots) ==
    IF Cardinality(dots) > 1 THEN [ok |-> FALSE, v |-> 0]
    ELSE ParseAtDot(neg, body, IF dots = {} THEN Len(body) + 1 ELSE CHOOSE i \in dots : TRUE)

ParseSigned(neg, body) == ParseUnsigned(neg, body, {i \in 1..Len(body) : body[i] = "."})

ParseStripped(t) ==
    ParseSigned(Len(t) > 0 /\ t[1] = "-",
                IF Len(t) > 0 /\ t[1] \in {"-", "+"} THEN Tail(t) ELSE t)

ParseFloat(s) == ParseStripped(Strip(s))

\* ------------------------------------------------------------- the labels

NO_MISINFO == <<"N","O","_","M","I","S","I","N","F","O">>
MISINFO == <<"M","I","S","I","N","F","O">>
DEBUNKING == <<"D","E","B","U","N","K","I","N","G">>
CANNOT_RECOGNIZE == <<"C","A","N","N","O","T","_","R","E","C","O","G","N","I","Z","E">>

\* the label set of the prompt
LabelSet == {NO_MISINFO, MISINFO, DEBUNKING, CANNOT_RECOGNIZE}

\* --------------------------------------------------- the text an LLM returns

LB == [tok |-> "lbrace", key |-> "", val |-> NullV]
RB == [tok |-> "rbrace", key |-> "", val |-> NullV]
Prose == [tok |-> "prose", key |-> "", val |-> NullV]
Member(k, x) == [tok |-> "member", key |-> k, val |-> x]

Text(toks) == [t |-> "text", v |-> toks]

Min(S) == CHOOSE x \in S : \A y \in S : x <= y
Max(S) == CHOOSE x \in S : \A y \in S : x >= y

RBracesAfter(text, i) == {j \in (i + 1)..Len(text) : text[j].tok = "rbrace"}
LBracesFrom(text, from) ==
    {i \in from..Len(text) : text[i].tok = "lbrace" /\ RBracesAfter(text, i) # {}}

RECURSIVE FindIterFrom(_, _)

\* the match from opening brace i to closing brace j, and the matches after it
MatchThenRest(text, i, j) == <<SubSeq(text, i, j)>> \o FindIterFrom(text, j + 1)

GreedyFrom(text, i) == MatchThenRest(text, i, Max(RBracesAfter(text, i)))

GreedyMatch(text, starts) == IF starts = {} THEN <<>> ELSE GreedyFrom(text, Min(starts))

\* re.finditer(r"\{.*\}", text, flags=re.DOTALL): from the leftmost opening brace
\* that has a closing brace after it, greedily to the last closing brace; the
\* search resumes after the match
FindIterFrom(text, from) == GreedyMatch(text, LBracesFrom(text, from))

FindIter(text) == FindIterFrom(text, 1)

RECURSIVE FindAllFrom(_, _)

LazyThenRest(text, i, j) == <<SubSeq(text, i, j)>> \o FindAllFrom(text, j + 1)

LazyFrom(text, i) == LazyThenRest(text, i, Min(RBracesAfter(text, i)))

LazyMatch(text, starts) == IF starts = {} THEN <<>> ELSE LazyFrom(text, Min(starts))

\* re.findall(r"{.*?}", text, re.DOTALL): as above, but lazily to the first
\* closing brace
FindAllFrom(text, from) == LazyMatch(text, LBracesFrom(text, from))

FindAll(text) == FindAllFrom(text, 1)

\* json.loads on a brace-delimited candidate: an object is an opening brace,
\* members, a closing brace; the parsed dict is the sequence of its members
JsonLoads(cand) ==
    IF /\ Len(cand) >= 2
       /\ cand[1].tok = "lbrace"
       /\ cand[Len(cand)].tok = "rbrace"
       /\ \A i \in 2..(Len(cand) - 1) : cand[i].tok = "member"
    THEN [ok |-> TRUE, obj |-> SubSeq(cand, 2, Len(cand) - 1)]
    ELSE [ok |-> FALSE, obj |-> <<>>]

\* dict.get(key, default): a key given twice keeps its last value
GetAt(obj, at, default) == IF at = {} THEN default ELSE obj[Max(at)].val

Get(obj, key, default) == GetAt(obj, {i \in 1..Len(obj) : obj[i].key = key}, default)

\* ----------------------------------------------------- outcomes of a call

Nothing == "nothing"
Return(x) == [exc |-> "none", val |-> x]
Raise(e) == [exc |-> e, val |-> Nothing]

\* float(value)
FloatOfParsed(p) == IF p.ok THEN Return(p.v) ELSE Raise("ValueError")

Float(x) ==
    IF x.t = "num" THEN Return(x.v)
    ELSE IF x.t = "str" THEN FloatOfParsed(ParseFloat(x.v))
    ELSE Raise("TypeError")

\* ------------------------------- pages/processes/analysis.py: the normalizer

NotStrResult ==
    [label |-> CANNOT_RECOGNIZE, keywords |-> ListV(<<>>), confidence |-> 500,
     explanation |-> <<>>, evidence_sentences |-> <<>>]

\* a default whose confidence is that of the except branch of analyze
FallbackZeroConfidence ==
    [label |-> CANNOT_RECOGNIZE, keywords |-> ListV(<<>>), confidence |-> 0,
     explanation |-> <<>>, evidence_sentences |-> <<>>]

FallbackResult ==
    [label |-> CANNOT_RECOGNIZE, keywords |-> ListV(<<>>), confidence |-> 500,
     explanation |-> <<>>, evidence_sentences |-> <<>>]

\* .strip().upper().rstrip(".") of the label
LabelChain(s) == RStripChars(Upper(Strip(s)), {"."})

StrList(parts) == ListV([i \in 1..Len(parts) |-> StrV(parts[i])])

\* a coercion that takes evidence from a list alone
EvidenceFromListOnly(raw) ==
    IF raw.t = "list"
    THEN SelectNonEmptyStripped([i \in 1..Len(raw.v) |-> Str(raw.v[i])])
    ELSE <<>>

\* the keywords field: a str is split at commas, anything else is kept as it is
CoerceKeywords(kws) ==
    IF kws.t = "str" THEN StrList(SelectNonEmptyStripped(Split(kws.v, ",")))
    ELSE kws

\* the evidence_sentences field
CoerceEvidence(raw) ==
    IF raw.t = "str" THEN SelectNonEmptyStripped(Split(raw.v, "\n"))
    ELSE IF raw.t = "list"
         THEN SelectNonEmptyStripped([i \in 1..Len(raw.v) |-> Str(raw.v[i])])
    ELSE <<>>

\* the body of the try statement for one candidate
\* the coercions of the fields of the parsed object; conf is float(confidence)
CoerceFields(obj, conf) ==
    IF conf.exc # "none" THEN Raise(conf.exc)
    ELSE Return(
        [label |-> LabelChain(Str(Get(obj, "label", StrV(CANNOT_RECOGNIZE)))),
         keywords |-> CoerceKeywords(Get(obj, "keywords", ListV(<<>>))),
         confidence |-> conf.val,
         explanation |-> Strip(Str(Get(obj, "explanation", StrV(<<>>)))),
         evidence_sentences |->
             CoerceEvidence(Get(obj, "evidence_sentences", ListV(<<>>)))])

TryParsed(p) ==
    IF ~p.ok THEN Raise("JSONDecodeError")
    ELSE CoerceFields(p.obj, Float(Get(p.obj, "confidence", NumV(500))))

TryCandidate(cand) == TryParsed(JsonLoads(cand))

\* an except clause that names json.JSONDecodeError alone
CatchesJsonErrorOnly(e) == e = "JSONDecodeError"

\* except Exception: every error json.loads and float raise is an Exception
Catches(e) == TRUE

RECURSIVE ExtractLoop(_, _)

\* r is what the try body did for candidate k: return, continue, or let it out
AfterCandidate(cands, k, r) ==
    IF r.exc = "none" THEN r
    ELSE IF Catches(r.exc) THEN ExtractLoop(cands, k + 1)
    ELSE r

\* for match in re.finditer(...): try ... return / except Exception: continue
ExtractLoop(cands, k) ==
    IF k > Len(cands) THEN Return(FallbackResult)
    ELSE AfterCandidate(cands, k, TryCandidate(cands[k]))

_extract_json_block(inp) ==
    IF inp.t # "text" THEN Return(NotStrResult)
    ELSE ExtractLoop(FindIter(inp.v), 1)

\* ------------------------------------------ core/classifier.py: the parser

RECURSIVE CoreLoop(_, _)

AfterLoads(cands, k, p) == IF p.ok THEN Return(p.obj) ELSE CoreLoop(cands, k + 1)

\* for match in matches: try: return json.loads(match)
\*                       except json.JSONDecodeError: continue
CoreLoop(cands, k) ==
    IF k > Len(cands) THEN Raise("ValueError")
    ELSE AfterLoads(cands, k, JsonLoads(cands[k]))

extract_json_block(inp) ==
    IF inp.t # "text" THEN Raise("RuntimeError")
    ELSE CoreLoop(FindAll(inp.v), 1)

\* ------------------------------------------- core/postprocess.py: the label

normalize_label(s) == RStripChars(Upper(Strip(s)), {"."})

\* ------------------------------------------------------------- the inputs

S_misinfo_dot == <<"m","i","s","i","n","f","o",".">>
S_debunking_dot == <<"d","e","b","u","n","k","i","n","g",".">>
S_misinfo_sp_dot == <<"m","i","s","i","n","f","o"," ",".">>
S_maybe == <<"m","a","y","b","e">>
S_high == <<"h","i","g","h">>
S_087 == <<"0",".","8","7">>
S_a_b == <<"a",","," ","b">>
S_a == <<"a">>
S_b == <<"b">>

\* the prompt asks for up to 10 keywords and for 1-3 quotes
KeywordLimit == 10
EvidenceLimit == 3

S_sp_a == <<" ", "a">>

\* lists longer than the prompt asks for, and a list with an untrimmed and an
\* empty element
ManyKeywords == ListV([i \in 1..(KeywordLimit + 1) |-> StrV(S_a)])
ManyEvidence == ListV([i \in 1..(EvidenceLimit + 1) |-> StrV(S_a)])
UntrimmedKeywords == ListV(<<StrV(S_sp_a), StrV(<<>>)>>)

\* evidence as a newline-delimited string and as a list, each with an
\* untrimmed and a whitespace-only entry
EvidenceString == StrV(<<" ", "a", "\n", " ", "\n", "b">>)
EvidenceList == ListV(<<StrV(S_sp_a), StrV(<<" ">>), StrV(S_b)>>)

\* the members a structural text is built from
MemberA == Member("label", StrV(MISINFO))
MemberB == Member("label", StrV(S_debunking_dot))

StructAlphabet == {LB, RB, Prose, MemberA, MemberB}

\* every text of at most MaxLen tokens: prose, stray braces, objects
StructTexts == UNION {[1..n -> StructAlphabet] : n \in 0..MaxLen}

\* the members of the object of a field text: expected and unexpected types
FieldMembers ==
    {Member("label", StrV(MISINFO)), Member("label", StrV(S_misinfo_dot)),
     Member("label", StrV(S_misinfo_sp_dot)), Member("label", StrV(S_maybe)),
     Member("label", NumV(7000)), Member("label", NullV),
     Member("keywords", StrV(S_a_b)), Member("keywords", ListV(<<StrV(S_a), StrV(S_b)>>)),
     Member("keywords", ListV(<<NumV(1000), NumV(2000)>>)), Member("keywords", NullV),
     Member("keywords", ManyKeywords), Member("keywords", UntrimmedKeywords),
     Member("evidence_sentences", ManyEvidence),
     Member("evidence_sentences", EvidenceString), Member("evidence_sentences", EvidenceList),
     Member("evidence_sentences", NumV(7000)), Member("evidence_sentences", NullV),
     Member("confidence", NumV(875)), Member("confidence", NumV(1500)),
     Member("confidence", NumV(-250)), Member("confidence", StrV(S_087)),
     Member("confidence", StrV(S_high)), Member("confidence", NullV)}

\* one object with at most MaxMembers of these members
FieldTexts ==
    {<<LB>> \o ms \o <<RB>> : ms \in UNION {[1..n -> FieldMembers] : n \in 0..MaxMembers}}

\* values that are no str
NonStrings == {NullV, NumV(5000)}

Inputs == {Text(toks) : toks \in StructTexts \cup FieldTexts} \cup NonStrings

LabelAlphabet == {" ", ".", "a"}
RawLabels == UNION {[1..n -> LabelAlphabet] : n \in 0..MaxLabelLen}

\* ------------------------------------------------ the normalizer, called once

NoOutcome == Raise("not called")

NormIdle ==
    /\ input = Text(<<>>)
    /\ fn = "none"
    /\ outcome = NoOutcome

LabelIdle ==
    /\ lbl = <<>>
    /\ once = <<>>
    /\ twice = <<>>
    /\ lpc = "idle"

KwIdle ==
    /\ kwlist = <<>>
    /\ kwform = "none"
    /\ kwfn = "none"
    /\ kwout = Nothing

NoError == [stage |-> "none", exc |-> "none"]

BatchIdle ==
    /\ pipeline = "none"
    /\ provider = "none"
    /\ check = "none"
    /\ video_paths = <<>>
    /\ files = <<>>
    /\ idx = 0
    /\ pc = "off"
    /\ transcript = Nothing
    /\ result = Nothing
    /\ rows = <<>>
    /\ error = NoError

NoAzure == [azure_api_key |-> "", azure_endpoint |-> "", azure_api_version |-> "",
            azure_deployment_name |-> ""]

SessIdle ==
    /\ service_provider = "none"
    /\ check_done = FALSE
    /\ openai_api_key = ""
    /\ azure = NoAzure
    /\ video_files = <<>>
    /\ session_keys = {}
    /\ shown = "none"
    /\ client = "none"
    /\ selected_model = FALSE
    /\ event = "off"
    /\ processed = <<>>

PromptIdle ==
    /\ script = "none"
    /\ prompt_kinds = <<>>
    /\ prompts = <<>>

TempIdle ==
    /\ entry = "none"
    /\ whisper_provider = "none"
    /\ num_parts = 0
    /\ has_moviepy = FALSE
    /\ tmp_files = {}
    /\ part_paths = <<>>
    /\ part_idx = 0
    /\ tstep = "off"
    /\ texit = "none"

CsvIdle ==
    /\ csv_header = <<>>

NoBatch == [provider |-> "none", key |-> "", files |-> <<>>]

AppIdle ==
    /\ app_page = "off"
    /\ app_provider = "none"
    /\ api_valid = FALSE
    /\ key_input = ""
    /\ uploaded = <<>>
    /\ session_files = <<>>
    /\ button_shown = FALSE
    /\ batch = NoBatch

OtherIdle ==
    /\ SessIdle
    /\ PromptIdle
    /\ TempIdle
    /\ CsvIdle
    /\ AppIdle

CoreIdle ==
    /\ NormIdle
    /\ LabelIdle
    /\ KwIdle
    /\ BatchIdle

InitNorm ==
    /\ input \in Inputs
    /\ fn = "none"
    /\ outcome = NoOutcome
    /\ LabelIdle
    /\ KwIdle
    /\ BatchIdle
    /\ OtherIdle

\* a caller hands the text to _extract_json_block of pages/processes/analysis.py
CallPagesNormalizer ==
    /\ fn = "none"
    /\ fn' = "pages"
    /\ outcome' = _extract_json_block(input)
    /\ UNCHANGED <<input, labelVars, kwVars, batchVars, otherVars>>

\* classify_transcript hands the text to extract_json_block of core/classifier.py
CallCoreParser ==
    /\ fn = "none"
    /\ fn' = "core"
    /\ outcome' = extract_json_block(input)
    /\ UNCHANGED <<input, labelVars, kwVars, batchVars, otherVars>>

NextNorm == CallPagesNormalizer \/ CallCoreParser

SpecNorm == InitNorm /\ [][NextNorm]_vars

\* --------------------------------------------- label normalization, twice

InitLabel ==
    /\ lbl \in RawLabels
    /\ once = <<>>
    /\ twice = <<>>
    /\ lpc = "raw"
    /\ NormIdle
    /\ KwIdle
    /\ BatchIdle
    /\ OtherIdle

NormalizeLabel ==
    /\ lpc = "raw"
    /\ once' = normalize_label(lbl)
    /\ lpc' = "once"
    /\ UNCHANGED <<lbl, twice, normVars, kwVars, batchVars, otherVars>>

NormalizeLabelAgain ==
    /\ lpc = "once"
    /\ twice' = normalize_label(once)
    /\ lpc' = "twice"
    /\ UNCHANGED <<lbl, once, normVars, kwVars, batchVars, otherVars>>

NextLabel == NormalizeLabel \/ NormalizeLabelAgain

SpecLabel == InitLabel /\ [][NextLabel]_vars

\* ------------------------------------------------------ the batch loops

\* the wall-clock seconds a caller measures: the value is of no concern
Elapsed == "elapsed"

\* round(x, 2): to hundredths, an exact tie to the even hundredth (the numbers
\* of this model that end in 5 thousandths are multiples of 1/8, exact in binary)
Round2(m) ==
    LET r == m % 10
        base == m - r
    IN IF r < 5 THEN base
       ELSE IF r > 5 THEN base + 10
       ELSE IF (base \div 10) % 2 = 0 THEN base ELSE base + 10

\* what the LLM answers for a transcript: a text, no content, or the call fails
R_good ==
    Text(<<LB, Member("label", StrV(S_misinfo_dot)),
           Member("keywords", ListV(<<StrV(S_a), StrV(S_b)>>)),
           Member("confidence", NumV(875)), RB>>)
R_prose == Text(<<Prose>>)
R_number_keywords ==
    Text(<<LB, Member("label", StrV(MISINFO)),
           Member("keywords", ListV(<<NumV(1000), NumV(2000)>>)), RB>>)
R_null_keywords == Text(<<LB, Member("label", StrV(MISINFO)), Member("keywords", NullV), RB>>)
R_number_label == Text(<<LB, Member("label", NumV(7000)), RB>>)
R_over_confident ==
    Text(<<LB, Member("label", StrV(S_maybe)), Member("confidence", NumV(1500)), RB>>)
NetworkFailure == [t |-> "failure", v |-> <<>>]

Responses ==
    {R_good, R_prose, R_number_keywords, R_null_keywords, R_number_label,
     R_over_confident, NullV, NetworkFailure}

\* a file's content decides whether its transcription raises and what the LLM
\* answers for its transcript
Contents ==
    {[tr |-> "raise", llm |-> NetworkFailure]} \cup {[tr |-> "ok", llm |-> r] : r \in Responses}

Batches == UNION {[1..n -> Contents] : n \in 0..MaxFiles}

RECURSIVE SortedSet(_)

\* sorted(set(video_paths)): file names are numbers in their sorting order
AscendingFrom(S, least) == <<least>> \o SortedSet(S \ {least})

SortedSet(S) == IF S = {} THEN <<>> ELSE AscendingFrom(S, Min(S))

\* what glob.glob finds for the four patterns, one after the other
Globbed == UNION {[1..n -> 1..MaxPaths] : n \in 0..MaxFiles}

\* the file names in the order of processing: the batch CLI sorts what it
\* globbed, the pages take the uploads in their order (named by position)
PathsOf(p) ==
    IF p = "cli" THEN {SortedSet({g[i] : i \in 1..Len(g)}) : g \in Globbed}
    ELSE {[i \in 1..n |-> i] : n \in 0..MaxFiles}

ProvidersOf(p) ==
    IF p = "pages" THEN {"OpenAI", "Azure OpenAI", "Ollama (Mistral)"}
    ELSE IF p = "app" THEN {"OpenAI", "Gemini", "Ollama"}
    ELSE IF p = "legacy" THEN {"OpenAI", "Azure OpenAI"}
    ELSE {"Ollama (Mistral)"}

\* what the credential check of this run gave: "absent" (the credentials are
\* not entered, no client is made), "failed" (the probe failed), "passed".
\* Ollama has no credentials to enter: pages probes its reachability, app.py
\* sets api_valid without a probe.  The batch CLI has no check.
ChecksOf(p, prov) ==
    IF p = "cli" THEN {"none"}
    ELSE IF prov = "Ollama (Mistral)" THEN {"failed", "passed"}
    ELSE IF prov = "Ollama" THEN {"passed"}
    ELSE {"absent", "failed", "passed"}

\* the conditions under which the click reaches the loop
\* pages/2_Analysis.py: files uploaded; a client for OpenAI and Azure OpenAI
\* (made when the credentials are entered); a model selected for OpenAI (the
\* selection is shown when the probe passed)
\* app.py: st.session_state.api_valid, and files
\* streamlit_ui/pages/2_Analysis.py and the batch CLI: no condition
Proceeds ==
    IF pipeline = "pages"
    THEN /\ Len(files) > 0
         /\ ~(provider \in {"OpenAI", "Azure OpenAI"} /\ check = "absent")
         /\ ~(provider = "OpenAI" /\ check # "passed")
    ELSE IF pipeline = "app" THEN check = "passed" /\ Len(files) > 0
    ELSE TRUE

Init ==
    /\ pipeline \in {"pages", "cli", "app", "legacy"}
    /\ provider \in ProvidersOf(pipeline)
    /\ check \in ChecksOf(pipeline, provider)
    /\ video_paths \in PathsOf(pipeline)
    /\ files \in {b \in Batches : Len(b) = Len(video_paths)}
    /\ idx = 0
    /\ pc = "idle"
    /\ transcript = Nothing
    /\ result = Nothing
    /\ rows = <<>>
    /\ error = NoError
    /\ NormIdle
    /\ LabelIdle
    /\ KwIdle
    /\ OtherIdle

\* result["time_taken_secs"] = round(time.time() - start, 2)
WithTime(r) ==
    [label |-> r.label, keywords |-> r.keywords, confidence |-> r.confidence,
     explanation |-> r.explanation, evidence_sentences |-> r.evidence_sentences,
     time_taken_secs |-> Elapsed]

\* the dict analyze and analyze2 return from their except branch
AnalyzeFailed ==
    [label |-> CANNOT_RECOGNIZE, keywords |-> ListV(<<>>), confidence |-> 0,
     explanation |-> <<>>, evidence_sentences |-> <<>>, time_taken_secs |-> Elapsed]

\* the dict analyze_local_mistral returns from its except branch
MistralFailed ==
    [label |-> CANNOT_RECOGNIZE, keywords |-> ListV(<<>>), confidence |-> 500,
     explanation |-> <<>>, evidence_sentences |-> <<>>, time_taken_secs |-> Elapsed]

\* analyze(transcript, model, client, container); analyze2 is the same code
\* result = _extract_json_block(content); result["time_taken_secs"] = ...
\* a caller that leaves the result as the normalizer gave it
Untimed(r) == r

Timed(r) == IF r.exc = "none" THEN Return(WithTime(r.val)) ELSE r

analyze(reply) ==
    IF reply = NetworkFailure THEN Return(AnalyzeFailed)
    ELSE Timed(_extract_json_block(reply))

\* analyze_local_mistral(transcript, container, model_name)
analyze_local_mistral(reply) ==
    IF reply = NetworkFailure THEN Return(MistralFailed)
    ELSE Timed(_extract_json_block(reply))

\* analyze_with_mistral of the batch CLI: requests.post and raise_for_status
\* stand outside any try
analyze_with_mistral(reply) ==
    IF reply = NetworkFailure THEN Raise("RequestException")
    ELSE Timed(_extract_json_block(reply))

\* result["time_taken_secs"] = ... on the dict json.loads gave
CoreTimed(r) ==
    IF r.exc = "none" THEN Return(r.val \o <<Member("time_taken_secs", NumV(0))>>) ELSE r

\* classify_transcript of core/classifier.py: nothing is caught
classify_transcript(reply) ==
    IF reply = NetworkFailure THEN Raise("RequestException")
    ELSE CoreTimed(extract_json_block(reply))

\* ";".join(keywords): the argument must be an iterable of str
JoinKeywords(kws) ==
    IF kws.t = "list" /\ \A i \in 1..Len(kws.v) : kws.v[i].t = "str"
    THEN Return(Join([i \in 1..Len(kws.v) |-> kws.v[i].v], <<";">>))
    ELSE IF kws.t = "str"
    THEN Return(Join([i \in 1..Len(kws.v) |-> <<kws.v[i]>>], <<";">>))
    ELSE Raise("TypeError")

\* the dict literal of rows.append in pages/2_Analysis.py
PagesRowJoined(name, text, r, kw) ==
    IF kw.exc # "none" THEN Raise(kw.exc)
    ELSE Return([video_file |-> name, transcript |-> text, label |-> r.label,
                 keywords |-> kw.val,
                 confidence_score |-> Round2(r.confidence),
                 time_taken_sec |-> r.time_taken_secs])

\* a record whose keywords go on from those of the record before it, as with
\* a keyword collection shared by the files of the batch
AccumulatingPagesRow(name, text, r) ==
    LET kw == JoinKeywords(r.keywords)
    IN PagesRowJoined(name, text, r,
                      IF kw.exc = "none" /\ Len(rows) > 0
                      THEN Return(rows[Len(rows)].keywords \o <<";">> \o kw.val)
                      ELSE kw)

PagesRow(name, text, r) == PagesRowJoined(name, text, r, JoinKeywords(r.keywords))

\* the row dict of the batch CLI
CliRowJoined(name, text, r, kw) ==
    IF kw.exc # "none" THEN Raise(kw.exc)
    ELSE Return([video_file |-> name, transcript |-> text, label |-> r.label,
                 keywords |-> kw.val,
                 confidence_score |-> Round2(r.confidence),
                 explanation |-> r.explanation,
                 evidence_sentences |-> Join(r.evidence_sentences, <<"|">>),
                 time_taken_sec |-> r.time_taken_secs])

CliRow(name, text, r) == CliRowJoined(name, text, r, JoinKeywords(r.keywords))

\* bool(value) of "result.get("keywords") or []"
Falsy(x) ==
    \/ x.t = "null"
    \/ x.t \in {"str", "list"} /\ Len(x.v) = 0
    \/ x.t = "num" /\ x.v = 0

\* ensure_schema(result) of core/postprocess.py, on the dict json.loads gave
\* result.get("keywords") or []
OrEmptyList(x) == IF Falsy(x) THEN ListV(<<>>) ELSE x

\* lab, kws, conf: the label read, the keywords read, float(confidence)
SchemaOf(lab, kws, conf) ==
    IF lab.t # "str" THEN Raise("AttributeError")
    ELSE IF kws.t = "num" THEN Raise("AttributeError")
    ELSE IF conf.exc # "none" THEN Raise(conf.exc)
    ELSE Return([label |-> normalize_label(lab.v),
                 keywords |-> IF kws.t = "list" THEN kws
                              ELSE StrList(SelectNonEmptyStripped(Split(kws.v, ","))),
                 confidence_score |-> Round2(conf.val),
                 time_taken_secs |-> Elapsed])

ensure_schema(obj) ==
    SchemaOf(Get(obj, "label", StrV(CANNOT_RECOGNIZE)),
             OrEmptyList(Get(obj, "keywords", NullV)),
             Float(Get(obj, "confidence", NumV(500))))

\* the dict literal of records.append in app.py
AppRowJoined(name, text, r, kw) ==
    IF kw.exc # "none" THEN Raise(kw.exc)
    ELSE Return([video_file |-> name, transcript |-> text, label |-> r.label,
                 keywords |-> kw.val,
                 confidence_score |-> r.confidence_score,
                 time_taken_sec |-> Elapsed])

AppRow(name, text, r) == AppRowJoined(name, text, r, JoinKeywords(r.keywords))

Abort(stage, e) ==
    /\ pc' = "aborted"
    /\ error' = [stage |-> stage, exc |-> e]

\* scripts/run_mistral_batch.py: fieldnames
CliFieldnames ==
    <<"prompt_id", "model_name", "video_file", "transcript", "label", "keywords",
      "confidence_score", "explanation", "evidence_sentences", "time_taken_sec">>

\* a batch CLI that writes no header
NoHeader(p) == <<>>

\* w.writeheader(), before the loop of the batch CLI; the pages write no file
HeaderOf(p) == IF p = "cli" THEN CliFieldnames ELSE <<>>

\* the click on the analyze button (the start of the CLI): the file is opened
\* and its header written, the loop begins, or there is nothing to do
StartBatch ==
    /\ pc = "idle"
    /\ idx' = IF Proceeds /\ Len(files) > 0 THEN 1 ELSE 0
    /\ pc' = IF ~Proceeds THEN "blocked"
             ELSE IF Len(files) = 0 THEN "done" ELSE "transcribe"
    /\ rows' = <<>>
    /\ csv_header' = HeaderOf(pipeline)
    /\ UNCHANGED <<pipeline, provider, check, video_paths, files, transcript, result, error,
                   normVars, labelVars, kwVars, sessVars, promptVars, tempVars, appVars>>

\* a loop that transcribes one file ahead of the file it classifies
TranscribeAhead ==
    /\ pc = "transcribe"
    /\ transcript' = files[IF idx < Len(files) THEN idx + 1 ELSE idx]
    /\ pc' = "classify"
    /\ UNCHANGED <<pipeline, provider, check, video_paths, files, idx, result, rows, error,
                   normVars, labelVars, kwVars, otherVars>>

\* transcriber(video_file, client), transcribe_local(p), transcribe_video(tmp.name):
\* an error of the speech-to-text backend leaves the loop; the older page has
\* no client to pass when no credentials were entered
Transcribe ==
    /\ pc = "transcribe"
    /\ IF pipeline = "legacy" /\ check = "absent"
       THEN /\ Abort("transcribe", "UnboundLocalError")
            /\ UNCHANGED transcript
       ELSE IF files[idx].tr = "raise"
       THEN /\ Abort("transcribe", "Exception")
            /\ UNCHANGED transcript
       ELSE /\ transcript' = files[idx]
            /\ pc' = "classify"
            /\ UNCHANGED error
    /\ UNCHANGED <<pipeline, provider, check, video_paths, files, idx, result, rows, normVars, labelVars, kwVars, otherVars>>

Classified(r, stage) ==
    IF r.exc = "none"
    THEN /\ result' = r.val
         /\ pc' = "append"
         /\ UNCHANGED error
    ELSE /\ Abort(stage, r.exc)
         /\ UNCHANGED result

\* pages/2_Analysis.py: the provider's analyze function
ClassifyPages ==
    /\ pc = "classify"
    /\ pipeline = "pages"
    /\ Classified(IF provider = "Ollama (Mistral)"
                  THEN analyze_local_mistral(transcript.llm)
                  ELSE analyze(transcript.llm), "classify")
    /\ UNCHANGED <<pipeline, provider, check, video_paths, files, idx, transcript, rows, normVars, labelVars, kwVars, otherVars>>

\* scripts/run_mistral_batch.py
ClassifyCli ==
    /\ pc = "classify"
    /\ pipeline = "cli"
    /\ Classified(analyze_with_mistral(transcript.llm),
                  IF transcript.llm = NetworkFailure THEN "classify" ELSE "normalize")
    /\ UNCHANGED <<pipeline, provider, check, video_paths, files, idx, transcript, rows, normVars, labelVars, kwVars, otherVars>>

\* app.py: classifier.classify_transcript
ClassifyApp ==
    /\ pc = "classify"
    /\ pipeline = "app"
    /\ Classified(classify_transcript(transcript.llm),
                  IF transcript.llm = NetworkFailure THEN "classify" ELSE "normalize")
    /\ UNCHANGED <<pipeline, provider, check, video_paths, files, idx, transcript, rows, normVars, labelVars, kwVars, otherVars>>

\* analyze and analyze2 of streamlit_ui/pages/processes/analysis.py: the same
\* code with a result of label, keywords, confidence and the time
LegacyFields(r) ==
    [label |-> r.label, keywords |-> r.keywords, confidence |-> r.confidence,
     time_taken_secs |-> r.time_taken_secs]

LegacyOf(r) == IF r.exc = "none" THEN Return(LegacyFields(r.val)) ELSE r

analyze_legacy(reply) == LegacyOf(analyze(reply))

\* streamlit_ui/pages/2_Analysis.py: analyze(transcript, selected_model, ...)
\* for OpenAI, where selected_model is bound only after a passed check;
\* analyze2 for Azure OpenAI
ClassifyLegacy ==
    /\ pc = "classify"
    /\ pipeline = "legacy"
    /\ Classified(IF provider = "OpenAI" /\ check # "passed"
                  THEN Raise("UnboundLocalError")
                  ELSE analyze_legacy(transcript.llm), "classify")
    /\ UNCHANGED <<pipeline, provider, check, video_paths, files, idx, transcript, rows,
                   normVars, labelVars, kwVars, otherVars>>

\* streamlit_ui/pages/2_Analysis.py: lines = analysis.splitlines(), on the dict
\* analyze returned: the loop is left before the record is made
ParseLegacy ==
    /\ pc = "append"
    /\ pipeline = "legacy"
    /\ Abort("parse", "AttributeError")
    /\ UNCHANGED <<pipeline, provider, check, video_paths, files, idx, transcript, result, rows,
                   normVars, labelVars, kwVars, otherVars>>

\* a loop that puts the new record first
Prepended(row, stage) ==
    IF row.exc = "none"
    THEN /\ rows' = <<row.val>> \o rows
         /\ idx' = IF idx < Len(files) THEN idx + 1 ELSE idx
         /\ pc' = IF idx < Len(files) THEN "transcribe" ELSE "done"
         /\ UNCHANGED error
    ELSE /\ Abort(stage, row.exc)
         /\ UNCHANGED <<rows, idx>>

\* a loop that keeps the newest record alone
Replaced(row, stage) ==
    IF row.exc = "none"
    THEN /\ rows' = <<row.val>>
         /\ idx' = IF idx < Len(files) THEN idx + 1 ELSE idx
         /\ pc' = IF idx < Len(files) THEN "transcribe" ELSE "done"
         /\ UNCHANGED error
    ELSE /\ Abort(stage, row.exc)
         /\ UNCHANGED <<rows, idx>>

Appended(row, stage) ==
    IF row.exc = "none"
    THEN /\ rows' = Append(rows, row.val)
         /\ idx' = IF idx < Len(files) THEN idx + 1 ELSE idx
         /\ pc' = IF idx < Len(files) THEN "transcribe" ELSE "done"
         /\ UNCHANGED error
    ELSE /\ Abort(stage, row.exc)
         /\ UNCHANGED <<rows, idx>>

\* pages/2_Analysis.py: rows.append({...}), then the next file
AppendRowPages ==
    /\ pc = "append"
    /\ pipeline = "pages"
    /\ Appended(PagesRow(video_paths[idx], transcript, result), "assemble")
    /\ UNCHANGED <<pipeline, provider, check, video_paths, files, transcript, result, normVars, labelVars, kwVars, otherVars>>

\* scripts/run_mistral_batch.py: row = {...}; w.writerow(row)
WriteRowCli ==
    /\ pc = "append"
    /\ pipeline = "cli"
    /\ Appended(CliRow(video_paths[idx], transcript, result), "assemble")
    /\ UNCHANGED <<pipeline, provider, check, video_paths, files, transcript, result, normVars, labelVars, kwVars, otherVars>>

AppendedSchema(r) ==
    IF r.exc # "none"
    THEN /\ Abort("schema", r.exc)
         /\ UNCHANGED <<rows, idx>>
    ELSE Appended(AppRow(video_paths[idx], transcript, r.val), "assemble")

\* app.py: result = postprocess.ensure_schema(result); records.append({...})
AppendRecordApp ==
    /\ pc = "append"
    /\ pipeline = "app"
    /\ AppendedSchema(ensure_schema(result))
    /\ UNCHANGED <<pipeline, provider, check, video_paths, files, transcript, result, normVars, labelVars, kwVars, otherVars>>

Next ==
    \/ StartBatch
    \/ Transcribe
    \/ ClassifyPages
    \/ ClassifyCli
    \/ ClassifyApp
    \/ ClassifyLegacy
    \/ ParseLegacy
    \/ AppendRowPages
    \/ WriteRowCli
    \/ AppendRecordApp

Spec == Init /\ [][Next]_vars

\* ------------------------------------- the keywords field, in its two forms

S_a_sp_b == <<"a", " ", "b">>

\* keywords: not empty, no comma, no whitespace around
Keywords == {S_a, S_b, S_a_sp_b}

KeywordLists == UNION {[1..n -> Keywords] : n \in 0..MaxKeywords}

\* the value of the keywords member: "k1, k2, ..., kn" or [k1, ..., kn]
KeywordsValue(ks, form) ==
    IF form = "string" THEN StrV(Join(ks, <<",", " ">>)) ELSE StrList(ks)

InitKeywords ==
    /\ kwlist \in KeywordLists
    /\ kwform \in {"string", "sequence"}
    /\ kwfn = "none"
    /\ kwout = Nothing
    /\ NormIdle
    /\ LabelIdle
    /\ BatchIdle
    /\ OtherIdle

\* the reply {"keywords": ...} goes through _extract_json_block
NormalizeKeywordsPages ==
    /\ kwfn = "none"
    /\ kwfn' = "pages"
    /\ kwout' = _extract_json_block(
                    Text(<<LB, Member("keywords", KeywordsValue(kwlist, kwform)), RB>>)).val.keywords
    /\ UNCHANGED <<kwlist, kwform, normVars, labelVars, batchVars, otherVars>>

\* the dict {"keywords": ...} goes through ensure_schema
SchemaKeywords ==
    /\ kwfn = "none"
    /\ kwfn' = "schema"
    /\ kwout' = ensure_schema(<<Member("keywords", KeywordsValue(kwlist, kwform))>>).val.keywords
    /\ UNCHANGED <<kwlist, kwform, normVars, labelVars, batchVars, otherVars>>

NextKeywords == NormalizeKeywordsPages \/ SchemaKeywords

SpecKeywords == InitKeywords /\ [][NextKeywords]_vars

\* ------------------------------ pages/2_Analysis.py: the page across its runs

SessionProviders == {"OpenAI", "Azure OpenAI", "Ollama (Mistral)"}

\* what the user may type into a key field: nothing, a key the service accepts,
\* a key it rejects
KeyValues == {"", "good", "bad"}

AzureFields == {"azure_api_key", "azure_endpoint", "azure_api_version", "azure_deployment_name"}

FieldValues(f) == IF f = "azure_api_key" THEN KeyValues ELSE {"", "x"}

\* the uploader holds up to MaxUploads files of the user, each once
Uploads ==
    UNION {{u \in [1..n -> 1..MaxUploads] : \A i, j \in 1..n : u[i] = u[j] => i = j}
           : n \in 0..MaxUploads}

\* all(st.session_state[k] for k in (...))
AllSet(az) == \A f \in AzureFields : az[f] # ""

\* is_open_ai_api_key_valid(api_key, client); probe: the service answers
is_open_ai_api_key_valid(api_key, probe) ==
    IF api_key = "" THEN FALSE ELSE api_key = "good" /\ probe

\* is_azure_api_key_valid(api_key, client, model)
is_azure_api_key_valid(api_key, model, probe) ==
    IF ~(api_key # "" /\ model # "") THEN FALSE ELSE api_key = "good" /\ probe

\* is_ollama_ready()
is_ollama_ready(probe) == probe

\* the client object after lines 206-247
ClientOf(p, key, az) ==
    IF p = "OpenAI" /\ key # "" THEN "OpenAI"
    ELSE IF p = "Azure OpenAI" /\ AllSet(az) THEN "Azure OpenAI"
    ELSE "none"

\* whether lines 206-247 report a passed check
CheckPasses(p, key, az, probe) ==
    IF p = "OpenAI" /\ key # "" THEN is_open_ai_api_key_valid(key, probe)
    ELSE IF p = "Azure OpenAI" /\ AllSet(az)
    THEN is_azure_api_key_valid(az.azure_api_key, az.azure_deployment_name, probe)
    ELSE IF p = "Ollama (Mistral)" THEN is_ollama_ready(probe)
    ELSE FALSE

\* lines 255-264: the click reaches the loop
LoopReached(vf, p, c, model) ==
    /\ Len(vf) > 0
    /\ ~(p \in {"OpenAI", "Azure OpenAI"} /\ c = "none")
    /\ ~(p = "OpenAI" /\ ~model)

\* remove_uploaded_files(): pops "uploaded_files" and the names it lists, "data"
\* and "page_state"
remove_uploaded_files(keys) == keys \ {"uploaded_files", "data", "page_state"}

\* a text input that the last run did not show comes back empty
KeyWidget == IF shown = "OpenAI" THEN openai_api_key ELSE ""

AzureWidget == IF shown = "Azure OpenAI" THEN azure ELSE NoAzure

\* the credential inputs a run shows (lines 187 and 192)
InputsShown(p, done) ==
    IF done \/ p = "Ollama (Mistral)" THEN "none" ELSE p

InitSession ==
    /\ SessIdle
    /\ CoreIdle
    /\ PromptIdle
    /\ TempIdle
    /\ CsvIdle
    /\ AppIdle

\* main(): one run of the script, with the widgets holding p, key_text,
\* azure_text and vf, started by the event ev
RunPage(ev, p, key_text, azure_text, vf, probe) ==
    /\ event' = ev
    /\ service_provider' = p
    /\ shown' = InputsShown(p, check_done)
    /\ openai_api_key' = IF InputsShown(p, check_done) = "OpenAI" THEN key_text
                         ELSE openai_api_key
    /\ azure' = IF InputsShown(p, check_done) = "Azure OpenAI" THEN azure_text ELSE azure
    /\ client' = ClientOf(p, openai_api_key', azure')
    /\ check_done' = (check_done \/ CheckPasses(p, openai_api_key', azure', probe))
    /\ selected_model' = (p = "OpenAI" /\ CheckPasses(p, openai_api_key', azure', probe))
    /\ video_files' = vf
    /\ processed' = IF ev = "analyze" /\ LoopReached(vf, p, client', selected_model')
                    THEN vf ELSE <<>>
    /\ session_keys' = IF ev = "remove" THEN remove_uploaded_files(session_keys)
                       ELSE session_keys
    /\ UNCHANGED <<coreVars, promptVars, tempVars, csvVars, appVars>>

\* the page is opened: the select box holds its first option
OpenPage ==
    /\ event = "off"
    /\ \E probe \in BOOLEAN :
           RunPage("open", "OpenAI", "", NoAzure, <<>>, probe)

SelectProvider ==
    /\ event # "off"
    /\ \E p \in SessionProviders \ {service_provider}, probe \in BOOLEAN :
           RunPage("select", p, KeyWidget, AzureWidget, video_files, probe)

TypeOpenAIKey ==
    /\ shown = "OpenAI"
    /\ \E k \in KeyValues \ {openai_api_key}, probe \in BOOLEAN :
           RunPage("key", service_provider, k, AzureWidget, video_files, probe)

TypeAzureField ==
    /\ shown = "Azure OpenAI"
    /\ \E f \in AzureFields, probe \in BOOLEAN :
           \E v \in FieldValues(f) \ {azure[f]} :
               RunPage("field", service_provider, KeyWidget, [azure EXCEPT ![f] = v],
                       video_files, probe)

ChangeUpload ==
    /\ event # "off"
    /\ \E vf \in Uploads \ {video_files}, probe \in BOOLEAN :
           RunPage("upload", service_provider, KeyWidget, AzureWidget, vf, probe)

\* st.button("Transcribe and Analyze Videos")
ClickAnalyze ==
    /\ event # "off"
    /\ \E probe \in BOOLEAN :
           RunPage("analyze", service_provider, KeyWidget, AzureWidget, video_files, probe)

\* st.button("Remove Files"): the button is on the page unless the last run
\* returned at lines 258, 261 or 264
ClickRemove ==
    /\ event # "off"
    /\ ~(event = "analyze" /\ processed = <<>>)
    /\ \E probe \in BOOLEAN :
           RunPage("remove", service_provider, KeyWidget, AzureWidget, video_files, probe)

NextSession ==
    \/ OpenPage
    \/ SelectProvider
    \/ TypeOpenAIKey
    \/ TypeAzureField
    \/ ChangeUpload
    \/ ClickAnalyze
    \/ ClickRemove

SpecSession == InitSession /\ [][NextSession]_vars

\* ------------------------------------------ the batch CLIs: build_prompt

\* the values the `prompt` field of a config may hold: the five of the
\* specification, another string, or no such field
ConfigPrompts == {"baseline", "fewshot", "reasoned", "cot", "enhanced_cot", "other", "absent"}

\* prompt_kind = cfg.get("prompt", "baseline")
PromptKindOf(c) == IF c = "absent" THEN "baseline" ELSE c

\* a prompt is the sequence of the text constants it is concatenated from; the
\* constants of the two scripts are different texts, so each carries its script
Const(sc, name) == <<sc, name>>

NewLine == "\\n"

\* scripts/run_mistral_batch.py: build_prompt
build_prompt_mistral(kind) ==
    IF kind = "baseline" THEN <<Const("mistral", "BASE_PROMPT")>>
    ELSE IF kind = "fewshot"
    THEN <<Const("mistral", "BASE_PROMPT"), NewLine, Const("mistral", "FEWSHOT_SUFFIX")>>
    ELSE IF kind = "reasoned"
    THEN <<Const("mistral", "BASE_PROMPT"), NewLine, Const("mistral", "REASONED_SUFFIX")>>
    ELSE IF kind = "cot"
    THEN <<Const("mistral", "BASE_PROMPT"), NewLine, Const("mistral", "COT_SUFFIX")>>
    ELSE IF kind = "enhanced_cot"
    THEN <<Const("mistral", "BASE_PROMPT"), NewLine, Const("mistral", "ENHANCED_COT_SUFFIX")>>
    ELSE <<Const("mistral", "BASE_PROMPT")>>

\* scripts/run_multimodal_batch.py: build_prompt
build_prompt_multimodal(kind) ==
    IF kind = "baseline" THEN <<Const("multimodal", "BASE_PROMPT")>>
    ELSE IF kind = "fewshot"
    THEN <<Const("multimodal", "BASE_PROMPT"), NewLine, Const("multimodal", "FEWSHOT_SUFFIX")>>
    ELSE IF kind = "reasoned"
    THEN <<Const("multimodal", "BASE_PROMPT"), NewLine, Const("multimodal", "REASONED_SUFFIX")>>
    ELSE <<Const("multimodal", "BASE_PROMPT")>>

InitPrompt ==
    /\ script \in {"mistral", "multimodal"}
    /\ prompt_kinds \in [1..2 -> ConfigPrompts]
    /\ prompts = <<>>
    /\ CoreIdle
    /\ SessIdle
    /\ TempIdle
    /\ CsvIdle
    /\ AppIdle

\* a run of run_mistral_batch.py builds the system prompt of its config
BuildPromptMistral ==
    /\ script = "mistral"
    /\ Len(prompts) < Len(prompt_kinds)
    /\ prompts' = Append(prompts,
                          build_prompt_mistral(PromptKindOf(prompt_kinds[Len(prompts) + 1])))
    /\ UNCHANGED <<script, prompt_kinds, coreVars, sessVars, tempVars, csvVars, appVars>>

\* a run of run_multimodal_batch.py builds the system prompt of its config
BuildPromptMultimodal ==
    /\ script = "multimodal"
    /\ Len(prompts) < Len(prompt_kinds)
    /\ prompts' = Append(prompts,
                          build_prompt_multimodal(PromptKindOf(prompt_kinds[Len(prompts) + 1])))
    /\ UNCHANGED <<script, prompt_kinds, coreVars, sessVars, tempVars, csvVars, appVars>>

NextPrompt == BuildPromptMistral \/ BuildPromptMultimodal

SpecPrompt == InitPrompt /\ [][NextPrompt]_vars

\* --------------------------- the temporary files of a transcription call

TempCopy == <<"temp_path", 0>>
WavFile == <<"wav_file", 0>>

\* f"{output_prefix}_part{i+1}.mp4"
PartFile(i) == <<"part", i>>

InitTemp ==
    /\ entry \in {"pages", "core"}
    /\ whisper_provider \in (IF entry = "pages" THEN {"OpenAI", "local"} ELSE {"local"})
    /\ num_parts \in (IF entry = "pages" THEN 0..MaxParts ELSE {0})
    /\ has_moviepy \in (IF entry = "pages" THEN BOOLEAN ELSE {FALSE})
    /\ tmp_files = {}
    /\ part_paths = <<>>
    /\ part_idx = 0
    /\ tstep = "start"
    /\ texit = "none"
    /\ CoreIdle
    /\ SessIdle
    /\ PromptIdle
    /\ CsvIdle
    /\ AppIdle

\* the call is left: the finally clause runs when the try statement was entered
Leave(how, in_try) ==
    /\ texit' = how
    /\ tstep' = IF in_try THEN "finally" ELSE "end"

\* _save_streamlit_file_to_temp: NamedTemporaryFile(delete=False), write, close;
\* the write may fail
SaveUpload ==
    /\ entry = "pages"
    /\ tstep = "start"
    /\ tmp_files' = tmp_files \cup {TempCopy}
    /\ \/ tstep' = "size" /\ UNCHANGED texit
       \/ Leave("raised", FALSE)
    /\ UNCHANGED <<entry, whisper_provider, num_parts, has_moviepy, part_paths, part_idx,
                   coreVars, sessVars, promptVars, csvVars, appVars>>

\* transcriber, lines 140-150, and the first lines of split_video
MeasureSize ==
    /\ tstep = "size"
    /\ IF num_parts = 0 \/ ~has_moviepy \/ num_parts <= 1
       THEN part_paths' = <<TempCopy>> /\ tstep' = "transcribe"
       ELSE part_paths' = <<>> /\ tstep' = "split"
    /\ UNCHANGED <<entry, whisper_provider, num_parts, has_moviepy, tmp_files, part_idx, texit,
                   coreVars, sessVars, promptVars, csvVars, appVars>>

\* split_video: one pass of the loop writes a part file; VideoFileClip, subclip
\* or write_videofile may raise, and then split_video returns [input_file]
WritePart ==
    /\ tstep = "split"
    /\ \/ /\ tmp_files' = tmp_files \cup {PartFile(part_idx + 1)}
          /\ part_paths' = Append(part_paths, PartFile(part_idx + 1))
          /\ part_idx' = IF part_idx + 1 = num_parts THEN 0 ELSE part_idx + 1
          /\ tstep' = IF part_idx + 1 = num_parts THEN "transcribe" ELSE "split"
       \/ /\ part_paths' = <<TempCopy>>
          /\ part_idx' = 0
          /\ tstep' = "transcribe"
          /\ UNCHANGED tmp_files
    /\ UNCHANGED <<entry, whisper_provider, num_parts, has_moviepy, texit,
                   coreVars, sessVars, promptVars, csvVars, appVars>>

\* one call of _transcribe_openai or _transcribe_local_faster_whisper on a path:
\* it returns a text or raises
TranscribePath ==
    /\ entry = "pages"
    /\ tstep = "transcribe"
    /\ \/ /\ part_idx + 1 < Len(part_paths)
          /\ part_idx' = part_idx + 1
          /\ UNCHANGED <<tstep, texit>>
       \/ /\ part_idx + 1 = Len(part_paths)
          /\ part_idx' = part_idx + 1
          /\ Leave("returned", TRUE)
       \/ /\ UNCHANGED part_idx
          /\ Leave("raised", TRUE)
    /\ UNCHANGED <<entry, whisper_provider, num_parts, has_moviepy, tmp_files, part_paths,
                   coreVars, sessVars, promptVars, csvVars, appVars>>

\* finally: with contextlib.suppress(Exception): os.remove(temp_path)
Finally ==
    /\ tstep = "finally"
    /\ tmp_files' = tmp_files \ {TempCopy}
    /\ tstep' = "end"
    /\ UNCHANGED <<entry, whisper_provider, num_parts, has_moviepy, part_paths, part_idx, texit,
                   coreVars, sessVars, promptVars, csvVars, appVars>>

\* core/transcriber.py: extract_audio makes the wav file
ExtractAudio ==
    /\ entry = "core"
    /\ tstep = "start"
    /\ tmp_files' = tmp_files \cup {WavFile}
    /\ part_paths' = <<WavFile>>
    /\ tstep' = "transcribe"
    /\ UNCHANGED <<entry, whisper_provider, num_parts, has_moviepy, part_idx, texit,
                   coreVars, sessVars, promptVars, csvVars, appVars>>

\* transcribe_video: _model.transcribe(wav), then os.remove(wav)
TranscribeWav ==
    /\ entry = "core"
    /\ tstep = "transcribe"
    /\ \/ /\ tmp_files' = tmp_files \ {WavFile}
          /\ part_idx' = 1
          /\ Leave("returned", FALSE)
       \/ /\ UNCHANGED <<tmp_files, part_idx>>
          /\ Leave("raised", FALSE)
    /\ UNCHANGED <<entry, whisper_provider, num_parts, has_moviepy, part_paths,
                   coreVars, sessVars, promptVars, csvVars, appVars>>

NextTemp ==
    \/ SaveUpload
    \/ MeasureSize
    \/ WritePart
    \/ TranscribePath
    \/ Finally
    \/ ExtractAudio
    \/ TranscribeWav

SpecTemp == InitTemp /\ [][NextTemp]_vars

\* ------------------------------------------- app.py: the app across its runs

AppProviders == {"OpenAI", "Gemini", "Ollama"}

\* what the user may type as a key: nothing, a key OpenAI accepts, a key
\* Gemini accepts, a key neither accepts
AppKeys == {"", "openai-key", "gemini-key", "bad-key"}

KeyGoodFor(p, key) ==
    \/ p = "OpenAI" /\ key = "openai-key"
    \/ p = "Gemini" /\ key = "gemini-key"

\* file.size in MB of the user's file f: every third file is just above the
\* limit, the others are at the limit
SizeMb(f) == IF f % 3 = 0 THEN MAX_UPLOAD_MB + 1 ELSE MAX_UPLOAD_MB

\* the uploader holds up to MaxUploads of the user's files, each once
AppUploads ==
    UNION {{u \in [1..n -> 1..(MaxUploads + 1)] : \A i, j \in 1..n : u[i] = u[j] => i = j}
           : n \in 0..MaxUploads}

\* lines 103-110: the files of the uploader that are not above the limit
KeepSized(f, rest) == IF SizeMb(f) > MAX_UPLOAD_MB THEN rest ELSE <<f>> \o rest

RECURSIVE ValidFiles(_)
ValidFiles(up) == IF Len(up) = 0 THEN <<>> ELSE KeepSized(Head(up), ValidFiles(Tail(up)))

\* validate_key(): the on_change callback of the key input; probe: the service
\* can be reached
validate_key(p, key, probe, valid) ==
    IF p \in {"OpenAI", "Gemini"} THEN KeyGoodFor(p, key) /\ probe
    ELSE IF p = "Ollama" THEN TRUE
    ELSE valid

InitApp ==
    /\ AppIdle
    /\ CoreIdle
    /\ SessIdle
    /\ PromptIdle
    /\ TempIdle
    /\ CsvIdle

\* the run stops at line 46: the widgets of the Analysis page are not shown
\* and lose their values
RunUserGuide ==
    /\ app_page' = "User Guide"
    /\ app_provider' = "OpenAI"
    /\ key_input' = ""
    /\ uploaded' = <<>>
    /\ button_shown' = FALSE
    /\ batch' = NoBatch
    /\ UNCHANGED <<api_valid, session_files>>

\* lines 97-151, with valid_files the files of the uploader within the limit
RunUpload(ev, p, key, up, valid, valid_files) ==
    /\ uploaded' = up
    /\ session_files' = IF Len(up) > 0 /\ Len(valid_files) > 0 THEN valid_files
                        ELSE session_files
    /\ button_shown' = ~(Len(up) > 0 /\ Len(valid_files) = 0)
    /\ batch' = IF ev = "analyze" /\ button_shown' /\ valid /\ Len(session_files') > 0
                THEN [provider |-> p, key |-> key, files |-> session_files']
                ELSE NoBatch

\* one run of app.py on the Analysis page; valid is api_valid after the
\* callback of the event
RunAnalysis(ev, p, key, up, valid) ==
    /\ app_page' = "Analysis"
    /\ app_provider' = p
    /\ key_input' = IF p \in {"OpenAI", "Gemini"} THEN key ELSE ""
    /\ api_valid' = IF p \in {"OpenAI", "Gemini"} THEN valid ELSE TRUE
    /\ RunUpload(ev, p, key_input', up, api_valid', ValidFiles(up))

\* the app is opened: the menu holds "Analysis", the select box its first option
OpenApp ==
    /\ app_page = "off"
    /\ RunAnalysis("open", "OpenAI", "", <<>>, FALSE)
    /\ UNCHANGED <<coreVars, sessVars, promptVars, tempVars, csvVars>>

\* option_menu: the other page is selected
SelectPage ==
    /\ app_page # "off"
    /\ IF app_page = "Analysis" THEN RunUserGuide
       ELSE RunAnalysis("page", app_provider, key_input, uploaded, api_valid)
    /\ UNCHANGED <<coreVars, sessVars, promptVars, tempVars, csvVars>>

\* st.selectbox: another provider is selected; the key input changes its label
\* with the provider, and keeps its text or comes back empty
SelectAppProvider ==
    /\ app_page = "Analysis"
    /\ \E p \in AppProviders \ {app_provider}, key \in {key_input, ""} :
           RunAnalysis("select", p, key, uploaded, api_valid)
    /\ UNCHANGED <<coreVars, sessVars, promptVars, tempVars, csvVars>>

\* st.text_input(key="_key_input", on_change=validate_key)
TypeKey ==
    /\ app_page = "Analysis"
    /\ app_provider \in {"OpenAI", "Gemini"}
    /\ \E key \in AppKeys \ {key_input}, probe \in BOOLEAN :
           RunAnalysis("key", app_provider, key, uploaded,
                       validate_key(app_provider, key, probe, api_valid))
    /\ UNCHANGED <<coreVars, sessVars, promptVars, tempVars, csvVars>>

\* st.file_uploader
ChangeAppUpload ==
    /\ app_page = "Analysis"
    /\ \E up \in AppUploads \ {uploaded} :
           RunAnalysis("upload", app_provider, key_input, up, api_valid)
    /\ UNCHANGED <<coreVars, sessVars, promptVars, tempVars, csvVars>>

\* st.button("Transcribe & Analyze")
ClickTranscribeAnalyze ==
    /\ app_page = "Analysis"
    /\ button_shown
    /\ RunAnalysis("analyze", app_provider, key_input, uploaded, api_valid)
    /\ UNCHANGED <<coreVars, sessVars, promptVars, tempVars, csvVars>>

NextApp ==
    \/ OpenApp
    \/ SelectPage
    \/ SelectAppProvider
    \/ TypeKey
    \/ ChangeAppUpload
    \/ ClickTranscribeAnalyze

SpecApp == InitApp /\ [][NextApp]_vars

\* ------------------------------------------------- what the claims speak of

\* the default result as the specification states it
SpecDefault ==
    [label |-> CANNOT_RECOGNIZE, keywords |-> ListV(<<>>), confidence |-> 500,
     explanation |-> <<>>, evidence_sentences |-> <<>>]

\* the places <<i, j>> of a text where a valid JSON object stands
ValidSpans(text) ==
    {ij \in (1..Len(text)) \X (1..Len(text)) :
        ij[1] < ij[2] /\ JsonLoads(SubSeq(text, ij[1], ij[2])).ok}

ContainsValidJson(text) == ValidSpans(text) # {}

\* the valid JSON object that stands first in the text
FirstSpan(text) == CHOOSE ij \in ValidSpans(text) : \A o \in ValidSpans(text) : ij[1] <= o[1]
FirstObject(text) == SubSeq(text, FirstSpan(text)[1], FirstSpan(text)[2])

\* the object carries a label of the label set, in any of its spellings
HasRecognizedLabel(cand) ==
    /\ \E i \in 1..Len(JsonLoads(cand).obj) : JsonLoads(cand).obj[i].key = "label"
    /\ Get(JsonLoads(cand).obj, "label", NullV).t = "str"
    /\ LabelChain(Get(JsonLoads(cand).obj, "label", NullV).v) \in LabelSet

\* every candidate of the text makes the try body raise (or there is none)
AllCandidatesRaise(text) ==
    \A k \in 1..Len(FindIter(text)) : TryCandidate(FindIter(text)[k]).exc # "none"

SomeCandidateRaises(text, e) ==
    \E k \in 1..Len(FindIter(text)) : TryCandidate(FindIter(text)[k]).exc = e

\* C1: _extract_json_block returns for every input, a str or not, and never
\* raises; on every error path (no str, no candidate, every candidate failing
\* in json.loads or in a coercion) it returns the default result.
C1_NeverRaises ==
    fn = "pages" =>
        /\ outcome.exc = "none"
        /\ (input.t # "text" \/ AllCandidatesRaise(input.v)) => outcome.val = SpecDefault

\* C1 witness: a candidate parsed, float() of its confidence raised ValueError,
\* and the call returned the default result
C1_Witness ==
    /\ fn = "pages"
    /\ input.t = "text"
    /\ SomeCandidateRaises(input.v, "ValueError")
    /\ outcome = Return(SpecDefault)

\* C6: a text that holds no valid JSON object gives exactly the default result.
C6_NoJsonGivesDefault ==
    (fn = "pages" /\ input.t = "text" /\ ~ContainsValidJson(input.v))
        => outcome = Return(SpecDefault)

\* C6 witness: a text with a brace-delimited candidate, none of it valid JSON,
\* was normalized to the default result
C6_Witness ==
    /\ fn = "pages"
    /\ input.t = "text"
    /\ Len(FindIter(input.v)) > 0
    /\ ~ContainsValidJson(input.v)
    /\ outcome = Return(SpecDefault)

\* C7: a text that holds exactly one valid JSON object, with a recognized label
\* and fields that coerce, gives the result made of that object's fields,
\* whatever surrounds the object.
C7_SingleObjectIsParsed ==
    (/\ fn = "pages"
     /\ input.t = "text"
     /\ Cardinality(ValidSpans(input.v)) = 1
     /\ HasRecognizedLabel(FirstObject(input.v))
     /\ TryCandidate(FirstObject(input.v)).exc = "none")
        => outcome = TryCandidate(FirstObject(input.v))

\* C8: when the first brace-delimited candidate of a text is no valid JSON and
\* the second is, the result is the one parsed from the second.
C8_SkipsInvalidCandidate ==
    (/\ fn = "pages"
     /\ input.t = "text"
     /\ Len(FindAll(input.v)) >= 2
     /\ ~JsonLoads(FindAll(input.v)[1]).ok
     /\ JsonLoads(FindAll(input.v)[2]).ok
     /\ TryCandidate(FindAll(input.v)[2]).exc = "none")
        => outcome = TryCandidate(FindAll(input.v)[2])

\* C9: when a text holds two or more JSON objects that parse, the result is
\* that of the first one by position, in both parsers.
C9_FirstObjectWins ==
    (/\ input.t = "text"
     /\ Cardinality(ValidSpans(input.v)) >= 2
     /\ TryCandidate(FirstObject(input.v)).exc = "none")
        => /\ fn = "pages" => outcome = TryCandidate(FirstObject(input.v))
           /\ fn = "core" => outcome = Return(JsonLoads(FirstObject(input.v)).obj)

\* C4: the label of every result of the normalizer is one of NO_MISINFO,
\* MISINFO, DEBUNKING, CANNOT_RECOGNIZE.
C4_LabelInEnum ==
    (fn = "pages" /\ outcome.exc = "none") => outcome.val.label \in LabelSet

\* C2: whatever text the LLM returns for a file, normalization and record
\* assembly complete without raising and the file yields a record: no batch of
\* any pipeline ends in an error raised while normalizing the reply, filling
\* the schema or assembling the record.
C2_MalformedOutputRecovered ==
    pc = "aborted" => error.stage \notin {"normalize", "schema", "assemble"}

\* C3: a failure while transcribing or classifying file i does not prevent the
\* files after it from being processed: a batch never ends in such a failure
\* with files still unprocessed.
C3_FailureDoesNotStopBatch ==
    (pc = "aborted" /\ error.stage \in {"transcribe", "classify"}) => idx = Len(files)

\* C5: the confidence of every record is within [0, 1] and rounded to two
\* decimals (numbers are in thousandths).
C5_ConfidenceInUnitInterval ==
    \A k \in 1..Len(rows) :
        /\ rows[k].confidence_score \in 0..1000
        /\ rows[k].confidence_score % 10 = 0

\* C10: label normalization is idempotent: normalizing a normalized label
\* gives the same label.
C10_NormalizeIdempotent == lpc = "twice" => twice = once

\* C11: for keywords k1..kn (not empty, no comma, no whitespace around), the
\* string "k1, k2, ..., kn" and the sequence [k1, ..., kn] normalize to the same
\* ordered sequence [k1, ..., kn], in _extract_json_block and in ensure_schema.
C11_KeywordFormsAgree == kwfn # "none" => kwout = StrList(kwlist)

\* C11 witness: two or more keywords written as one comma-separated string were
\* split into the sequence of the keywords
C11_Witness ==
    /\ kwfn \in {"pages", "schema"}
    /\ kwform = "string"
    /\ Len(kwlist) >= 2
    /\ kwout = StrList(kwlist)

\* C12: the keywords of every result of the normalizer are a sequence of
\* strings, each trimmed of surrounding whitespace and none empty.
C12_KeywordsAreTrimmedStrings ==
    (fn = "pages" /\ outcome.exc = "none") =>
        /\ outcome.val.keywords.t = "list"
        /\ \A i \in 1..Len(outcome.val.keywords.v) :
              /\ outcome.val.keywords.v[i].t = "str"
              /\ Len(outcome.val.keywords.v[i].v) > 0
              /\ Strip(outcome.val.keywords.v[i].v) = outcome.val.keywords.v[i].v

\* C13: every result of the normalizer has at most 10 keywords and at most 3
\* evidence sentences.
C13_KeywordsAndEvidenceBounded ==
    (fn = "pages" /\ outcome.exc = "none") =>
        /\ outcome.val.keywords.t = "list" => Len(outcome.val.keywords.v) <= KeywordLimit
        /\ Len(outcome.val.evidence_sentences) <= EvidenceLimit

\* C14: when the call to the LLM provider fails for a file, the error is
\* caught where the call is made, the file's result is the default result (with
\* the caller's time), and the loop is not left, on every provider path of
\* pages/2_Analysis.py and of the batch CLI.
C14_NetworkFailureGivesDefault ==
    pipeline \in {"pages", "cli"} =>
        /\ (pc = "append" /\ transcript.llm = NetworkFailure) => result = WithTime(SpecDefault)
        /\ ~(pc = "aborted" /\ error.stage = "classify")

\* C15: in pages/2_Analysis.py a file is transcribed or classified only in a run
\* whose credential check of the selected provider passed.
C15_ProcessingNeedsPassedCheck ==
    (pipeline = "pages" /\ pc \in {"transcribe", "classify", "append", "aborted"})
        => check = "passed"

\* the result and the record of file k when it is processed alone
IsolatedResult(k) ==
    IF pipeline = "pages"
    THEN (IF provider = "Ollama (Mistral)" THEN analyze_local_mistral(files[k].llm)
          ELSE analyze(files[k].llm))
    ELSE IF pipeline = "cli" THEN analyze_with_mistral(files[k].llm)
    ELSE classify_transcript(files[k].llm)

IsolatedRow(k) ==
    IF pipeline = "pages" THEN PagesRow(video_paths[k], files[k], IsolatedResult(k).val)
    ELSE IF pipeline = "cli" THEN CliRow(video_paths[k], files[k], IsolatedResult(k).val)
    ELSE AppRow(video_paths[k], files[k], ensure_schema(IsolatedResult(k).val).val)

\* C16: the classification of a file starts only when that file's transcription
\* has finished, and a file is transcribed or classified only when every file
\* before it has been classified and has its record.
C16_StrictlySequential ==
    /\ pc \in {"classify", "append"} => transcript = files[idx]
    /\ pc \in {"transcribe", "classify", "append"} => Len(rows) = idx - 1

\* C16 witness: the second file, different from the first, is about to be
\* classified: it is transcribed, and the first file has its record
C16_Witness ==
    /\ pc = "classify"
    /\ idx = 2
    /\ files[1] # files[2]
    /\ transcript = files[2]
    /\ Len(rows) = 1

\* C17: after a batch that completes the output holds exactly one record per
\* input file, in the order of the input: upload order in the pages, ascending
\* order of the de-duplicated paths in the batch CLI.
C17_OneRecordPerFileInOrder ==
    pc = "done" =>
        /\ Len(rows) = Len(files)
        /\ \A k \in 1..Len(rows) :
              /\ rows[k].video_file = video_paths[k]
              /\ rows[k].transcript = files[k]
        /\ pipeline = "cli" =>
              \A j, k \in 1..Len(rows) : j < k => rows[j].video_file < rows[k].video_file

\* C17 witness: the batch CLI completed a batch of two different files
C17_Witness ==
    /\ pc = "done"
    /\ pipeline = "cli"
    /\ Len(files) = 2
    /\ files[1] # files[2]
    /\ Len(rows) = 2

\* C18: during a batch the records are append-only: a step leaves them as they
\* are or adds one record at the end, and the step that ends a file's
\* processing adds exactly one.
C18_AppendOnly ==
    [][pc # "idle" =>
          /\ \/ rows' = rows
             \/ Len(rows') = Len(rows) + 1 /\ SubSeq(rows', 1, Len(rows)) = rows
          /\ (pc = "append" /\ pc' \in {"transcribe", "done"}) => Len(rows') = Len(rows) + 1]_vars

\* C18 witness: a second record stands behind the first, of a different file
C18_Witness ==
    /\ Len(rows) = 2
    /\ rows[1] # rows[2]
    /\ rows[1].video_file = video_paths[1]

\* C19: the record of a file depends only on that file and the provider: it is
\* the record the file gets when processed alone, whatever the other files of
\* the batch are and wherever the file stands, and two files of the same
\* content get the same label, keywords and confidence.
C19_RecordsAreIndependent ==
    /\ \A k \in 1..Len(rows) : rows[k] = IsolatedRow(k).val
    /\ \A j, k \in 1..Len(rows) :
          files[j] = files[k] =>
              /\ rows[j].label = rows[k].label
              /\ rows[j].keywords = rows[k].keywords
              /\ rows[j].confidence_score = rows[k].confidence_score

\* C19 witness: two files with different replies got records with different
\* labels, the second one its own
C19_Witness ==
    /\ Len(rows) = 2
    /\ files[1].llm # files[2].llm
    /\ rows[1].label # rows[2].label
    /\ rows[2] = IsolatedRow(2).val

\* C20: every result analyze, analyze2, analyze_local_mistral and
\* analyze_with_mistral return carries time_taken_secs, on the success path and
\* on the failure paths, and the normalizer's own result has no such field.
C20_CallerAttachesTime ==
    (pc = "append" /\ pipeline \in {"pages", "cli"}) =>
        /\ "time_taken_secs" \in DOMAIN result
        /\ "time_taken_secs" \notin DOMAIN _extract_json_block(transcript.llm).val

\* C20 witness: a result returned after the call to the provider failed, and a
\* result returned after a reply was normalized, carry the time
C20_Witness ==
    /\ pc = "append"
    /\ pipeline = "pages"
    /\ idx = 2
    /\ files[1].llm = NetworkFailure
    /\ rows[1].time_taken_sec = Elapsed
    /\ transcript.llm = R_good
    /\ result.time_taken_secs = Elapsed

\* C21: when the run started by a click on 'Remove Files' is followed directly by
\* a click on 'Transcribe and Analyze Videos', with no upload in between, that
\* run transcribes and analyzes no file.
C21_RemovedFilesAreNotProcessed ==
    [][(event = "remove" /\ event' = "analyze") => processed' = <<>>]_vars

\* C26: in every state of the session where the selected provider is OpenAI and
\* no OpenAI key is stored, or it is Azure OpenAI and no Azure field is stored,
\* the page shows the credential inputs of that provider.
C26_CredentialInputsStayReachable ==
    /\ (service_provider = "OpenAI" /\ openai_api_key = "") => shown = "OpenAI"
    /\ (service_provider = "Azure OpenAI" /\ azure = NoAzure) => shown = "Azure OpenAI"

\* the five prompt values of the specification
SpecPromptKinds == {"baseline", "fewshot", "reasoned", "cot", "enhanced_cot"}

\* the suffix constant the specification gives each value other than baseline
SpecSuffix(kind) ==
    IF kind = "fewshot" THEN "FEWSHOT_SUFFIX"
    ELSE IF kind = "reasoned" THEN "REASONED_SUFFIX"
    ELSE IF kind = "cot" THEN "COT_SUFFIX"
    ELSE "ENHANCED_COT_SUFFIX"

\* C22: for each of the five prompt values, each batch CLI builds the base
\* prompt for baseline and the base prompt plus the value's own suffix for the
\* other four, and two different values never give the same prompt.
C22_EachPromptKindHasItsPrompt ==
    /\ \A i \in 1..Len(prompts) :
           prompt_kinds[i] \in SpecPromptKinds =>
               prompts[i] = IF prompt_kinds[i] = "baseline"
                            THEN <<Const(script, "BASE_PROMPT")>>
                            ELSE <<Const(script, "BASE_PROMPT"), NewLine,
                                   Const(script, SpecSuffix(prompt_kinds[i]))>>
    /\ (/\ Len(prompts) = 2
        /\ prompt_kinds[1] \in SpecPromptKinds
        /\ prompt_kinds[2] \in SpecPromptKinds
        /\ prompt_kinds[1] # prompt_kinds[2]) => prompts[1] # prompts[2]

\* the candidates of a text for which the try body returns
ReturningCandidates(text) ==
    {k \in 1..Len(FindIter(text)) : TryCandidate(FindIter(text)[k]).exc = "none"}

\* the candidates of a text that parse as JSON
ParsingCandidates(text) ==
    {k \in 1..Len(FindIter(text)) : JsonLoads(FindIter(text)[k]).ok}

\* the parsed object of candidate k
ObjectOf(text, k) == JsonLoads(FindIter(text)[k]).obj

CannotCast(obj) == Float(Get(obj, "confidence", NumV(500))).exc # "none"

\* C23: when the first candidate that parses as JSON has a confidence that
\* cannot be cast to a number, the result has confidence 0.5 and the label,
\* keywords, explanation and evidence_sentences coerced from that object.
C23_OnlyConfidenceFallsBack ==
    (/\ fn = "pages"
     /\ input.t = "text"
     /\ ParsingCandidates(input.v) # {}
     /\ CannotCast(ObjectOf(input.v, Min(ParsingCandidates(input.v)))))
        => outcome = CoerceFields(ObjectOf(input.v, Min(ParsingCandidates(input.v))),
                                  Return(500))

NotEmpty(s) == Len(s) > 0

\* the entries of an evidence_sentences field: the lines of a string, the
\* elements of a sequence as strings, none for any other type
EvidenceEntries(raw) ==
    IF raw.t = "str" THEN Split(raw.v, "\n")
    ELSE IF raw.t = "list" THEN [i \in 1..Len(raw.v) |-> Str(raw.v[i])]
    ELSE <<>>

TrimmedEntries(es) == SelectSeq([i \in 1..Len(es) |-> Strip(es[i])], NotEmpty)

\* the evidence_sentences field of the object the result was made from
EvidenceField(text) ==
    Get(ObjectOf(text, Min(ReturningCandidates(text))), "evidence_sentences", ListV(<<>>))

\* C25: the evidence_sentences of a result made from a parsed object are the
\* entries of the object's field in their order, each trimmed, the empty and
\* whitespace-only ones dropped, for a newline-delimited string and for a
\* sequence; a field of any other type gives the empty sequence.
C25_EvidenceTrimmedInOrder ==
    (fn = "pages" /\ input.t = "text" /\ ReturningCandidates(input.v) # {})
        => outcome.val.evidence_sentences = TrimmedEntries(EvidenceEntries(EvidenceField(input.v)))

\* C25 witness: the string " a", " ", "b" on three lines was normalized to the
\* two sentences "a", "b"
C25_Witness ==
    /\ fn = "pages"
    /\ input.t = "text"
    /\ ReturningCandidates(input.v) # {}
    /\ EvidenceField(input.v) = EvidenceString
    /\ outcome.exc = "none"
    /\ outcome.val.evidence_sentences = <<S_a, S_b>>

\* C28: when a transcription call has ended, by a return or by an exception,
\* no temporary file it created exists any more.
C28_NoTempFileSurvives ==
    tstep = "end" => tmp_files = {}

\* C27: in the batch CLI the header is in the CSV before any file is
\* processed, the rows of files 1..i are in it, in order, before file i+1 is
\* processed, and when the batch is left by an exception while file k is
\* processed the CSV holds the header and exactly the rows of files 1..k-1.
C27_CsvWrittenAsProcessed ==
    pipeline = "cli" =>
        /\ pc \in {"transcribe", "classify", "append", "done", "aborted"}
              => csv_header = CliFieldnames
        /\ pc \in {"transcribe", "classify", "append", "aborted"}
              => /\ Len(rows) = idx - 1
                 /\ \A k \in 1..Len(rows) : rows[k] = IsolatedRow(k).val

\* C27 witness: the batch CLI was left by an exception while its second file
\* was processed, with the header and the row of the first file written
C27_Witness ==
    /\ pipeline = "cli"
    /\ pc = "aborted"
    /\ idx = 2
    /\ csv_header = CliFieldnames
    /\ Len(rows) = 1
    /\ rows[1].video_file = video_paths[1]

\* C24: in app.py a batch that starts with provider OpenAI or Gemini runs with
\* a key that passed the validation of that provider.
C24_BatchKeyWasValidated ==
    (batch # NoBatch /\ batch.provider \in {"OpenAI", "Gemini"})
        => KeyGoodFor(batch.provider, batch.key)

\* C29: in app.py the files a click on 'Transcribe & Analyze' processes are
\* exactly the files the uploader holds that are not above MAX_UPLOAD_MB.
C29_ProcessesCurrentSizedFiles ==
    batch # NoBatch =>
        /\ \A i \in 1..Len(batch.files) : SizeMb(batch.files[i]) <= MAX_UPLOAD_MB
        /\ batch.files = SelectSeq(uploaded, LAMBDA f : SizeMb(f) <= MAX_UPLOAD_MB)

====
